---- MODULE Spec2Model ----
(***************************************************************************)
(* Order-and-payment backend ("5 A.M. Assembly" FastAPI service).          *)
(*                                                                         *)
(* Two applications are modelled: the one defined in src/backend/main.py   *)
(* (app = "backend") and the one defined in src/main.py (app = "main").    *)
(* The state is the SQLite table `orders`, the process configuration       *)
(* (KEY_ID, KEY_SECRET), the wall clock, the last HTTP exchange (resp: the *)
(* request, the handler that served it and its answer) and the content of  *)
(* the table when that request arrived (before).                           *)
(*                                                                         *)
(* Spec     : every request handler runs as one atomic step (each handler  *)
(*            touches the database in exactly one transaction).            *)
(* SpecConc : handlers of concurrent requests interleave; a handler is     *)
(*            split at its database transaction.                           *)
(*                                                                         *)
(* Strings are TLA+ strings.  HMAC-SHA256 is modelled as an ideal keyed    *)
(* function (distinct (key, message) pairs give distinct digests).         *)
(* Request strings are ASCII text.                                         *)
(***************************************************************************)
EXTENDS Integers, Sequences, FiniteSets, TLC

VARIABLES app, KEY_ID, KEY_SECRET, orders, clock, resp, before, threads

vars == <<app, KEY_ID, KEY_SECRET, orders, clock, resp, before, threads>>

-----------------------------------------------------------------------------
(* Bounds of the model *)

MaxOrders == 2
MaxClock == 1
NumThreads == 2

-----------------------------------------------------------------------------
(* Input domains *)

Apps == {"backend", "main"}
KeyIds == {"", "rzp_test_key"}
KeySecrets == {"", "secret"}
OrderIds == {"order_1", "order_2"}
PaymentIds == {"pay_1", "pay_2"}
Products == {"espresso"}
Qtys == {0, 1, 20, 21}
Amounts == {0, 45000}
DefaultLimit == 50
Limits == {-1, 0, 1, 2, DefaultLimit}
Threads == 1..NumThreads

NULL == "<NULL>"

(* CreateOrderRequest *)
CreateOrderRequest ==
    [product : Products, qty : Qtys, amount_paise : Amounts,
     customer_name : {"Asha"}, customer_email : {"asha@example.com"},
     customer_phone : {"9000000000"}, delivery_address : {"12 MG Road"}]

(* What the Razorpay Orders API does with one call: it answers 200 with an *)
(* order id, answers with a non-success status, or the call raises.        *)
GatewayOutcomes ==
    [kind : {"ok"}, id : OrderIds] \cup [kind : {"error", "raise"}, id : {NULL}]

-----------------------------------------------------------------------------
(* Signature computation *)

Payload(order_id, payment_id) == order_id \o "|" \o payment_id

HexDigest(key, msg) == "hmac_sha256(" \o key \o "," \o msg \o ")"

expected_sig(order_id, payment_id) == HexDigest(KEY_SECRET, Payload(order_id, payment_id))

(* variant: the comparison result is ignored *)
compare_digest_ignored(a, b) == TRUE

compare_digest(a, b) == a = b

(* Signatures a caller may supply with (order_id, payment_id): the digest  *)
(* under the server's secret, the digest of the same payload under another *)
(* key, and the server's digest for the same order and another payment id. *)
Signatures(order_id, payment_id) ==
    { HexDigest(k, Payload(order_id, p)) : k \in {KEY_SECRET}, p \in PaymentIds }
      \cup { HexDigest("forged", Payload(order_id, payment_id)) }

VerifyPaymentRequest ==
    { r \in [razorpay_order_id : OrderIds, razorpay_payment_id : PaymentIds,
             razorpay_signature : UNION { Signatures(o, p) : o \in OrderIds, p \in PaymentIds }] :
        r.razorpay_signature \in Signatures(r.razorpay_order_id, r.razorpay_payment_id) }

-----------------------------------------------------------------------------
(* The orders table *)

RowIdx(rows, order_id) == { i \in 1..Len(rows) : rows[i].razorpay_order_id = order_id }

InsertRow(rows, order_id, req, now) ==
    Append(rows,
      [id |-> Len(rows) + 1,
       razorpay_order_id |-> order_id,
       razorpay_payment_id |-> NULL,
       razorpay_signature |-> NULL,
       product |-> req.product,
       qty |-> req.qty,
       amount_paise |-> req.amount_paise,
       customer_name |-> req.customer_name,
       customer_email |-> req.customer_email,
       customer_phone |-> req.customer_phone,
       delivery_address |-> req.delivery_address,
       status |-> "created",
       created_at |-> now,
       verified_at |-> NULL])

(* variant: table created without the UNIQUE constraint *)
UniqueViolation_none(rows, order_id) == FALSE

UniqueViolation(rows, order_id) == RowIdx(rows, order_id) # {}

(* datetime.now().isoformat(): the clock reading as text *)
isoformat(now) == "T+" \o ToString(now)

(* variant: UPDATE without its WHERE clause *)
UpdatePaid_no_where(rows, order_id, payment_id, signature, now) ==
    [i \in 1..Len(rows) |->
        [rows[i] EXCEPT !.razorpay_payment_id = payment_id,
                        !.razorpay_signature = signature,
                        !.status = "paid",
                        !.verified_at = isoformat(now)]]

(* variant: UPDATE that does not store the signature *)
UpdatePaid_no_signature(rows, order_id, payment_id, signature, now) ==
    [i \in 1..Len(rows) |->
        IF rows[i].razorpay_order_id = order_id
        THEN [rows[i] EXCEPT !.razorpay_payment_id = payment_id,
                             !.status = "paid",
                             !.verified_at = isoformat(now)]
        ELSE rows[i]]

UpdatePaid(rows, order_id, payment_id, signature, now) ==
    [i \in 1..Len(rows) |->
        IF rows[i].razorpay_order_id = order_id
        THEN [rows[i] EXCEPT !.razorpay_payment_id = payment_id,
                             !.razorpay_signature = signature,
                             !.status = "paid",
                             !.verified_at = isoformat(now)]
        ELSE rows[i]]

-----------------------------------------------------------------------------
NoResp == [op |-> "none", status |-> 0]

IdleThread == [pc |-> "idle"]

Init ==
    /\ app \in Apps
    /\ KEY_ID \in KeyIds
    /\ KEY_SECRET \in KeySecrets
    /\ orders = <<>>
    /\ clock = 0
    /\ resp = NoResp
    /\ before = <<>>
    /\ threads = [t \in Threads |-> IdleThread]

Tick ==
    /\ clock < MaxClock
    /\ clock' = clock + 1
    /\ UNCHANGED <<app, KEY_ID, KEY_SECRET, orders, resp, before, threads>>

-----------------------------------------------------------------------------
(* Routing: the routes of each application in registration order.  The     *)
(* router hands a request to the first registered route that matches.      *)

RoutesBackend ==
    << [path |-> "POST /api/create-order", handler |-> "create_order"],
       [path |-> "POST /api/verify-payment", handler |-> "verify_payment"],
       [path |-> "GET /api/orders", handler |-> "list_orders"],
       [path |-> "GET /api/orders/{order_id}", handler |-> "get_order"] >>

RoutesMain ==
    << [path |-> "POST /api/create-order", handler |-> "create_order"],
       [path |-> "POST /api/create-order", handler |-> "create_order_async"],
       [path |-> "GET /api/orders", handler |-> "list_orders"],
       [path |-> "GET /api/orders/{order_id}", handler |-> "get_order"] >>

Routes(a) == IF a = "backend" THEN RoutesBackend ELSE RoutesMain

Matching(a, path) == { i \in 1..Len(Routes(a)) : Routes(a)[i].path = path }

Dispatch(a, path) ==
    IF Matching(a, path) = {} THEN "no_route"
    ELSE Routes(a)[CHOOSE i \in Matching(a, path) : \A j \in Matching(a, path) : i <= j].handler

(* The module-level name rzp_client is bound in src/backend/main.py only. *)
rzp_client_defined(a) == a = "backend"

-----------------------------------------------------------------------------
(* create-order *)

CredentialsMissing == KEY_ID = "" \/ KEY_SECRET = ""

(* variant: lower bound off by one *)
QtyInvalid_lower_off(qty) == qty < 0 \/ qty > 20

QtyInvalid(qty) == qty < 1 \/ qty > 20

AmountInvalid(amount_paise) == amount_paise <= 0

Outcome(status, rows, called, order_id) ==
    [status |-> status, rows |-> rows, gateway_called |-> called, order_id |-> order_id]

(* INSERT INTO orders ... ; commit.  A UNIQUE violation raises inside the  *)
(* transaction, which is rolled back, and the request ends with a 500.     *)
persist_order(rows, order_id, req, now) ==
    IF UniqueViolation(rows, order_id)
    THEN Outcome(500, rows, TRUE, NULL)
    ELSE Outcome(200, InsertRow(rows, order_id, req, now), TRUE, order_id)

(* Credential and input checks at the top of both create-order handlers. *)
validate_request(req) ==
    IF CredentialsMissing THEN 500
    ELSE IF QtyInvalid(req.qty) THEN 400
    ELSE IF AmountInvalid(req.amount_paise) THEN 400
    ELSE 200

GatewayResult(status, called) == [status |-> status, gateway_called |-> called]

(* variant: the gateway answer is used without a failure check *)
rzp_order_create_unchecked(a, gw) ==
    IF ~rzp_client_defined(a) THEN GatewayResult(502, FALSE)
    ELSE GatewayResult(200, TRUE)

(* try: rzp_client.order.create(...) except Exception: 502.  The razorpay  *)
(* client raises for a failed call and for a non-success answer, and an    *)
(* unbound rzp_client raises NameError inside the same try block.          *)
rzp_order_create(a, gw) ==
    IF ~rzp_client_defined(a) THEN GatewayResult(502, FALSE)
    ELSE IF gw.kind # "ok" THEN GatewayResult(502, TRUE)
    ELSE GatewayResult(200, TRUE)

(* try: httpx post; status_code != 200 -> 502; any exception -> 502. *)
httpx_order_create(gw) ==
    IF gw.kind = "raise" THEN GatewayResult(502, TRUE)
    ELSE IF gw.kind = "error" THEN GatewayResult(502, TRUE)
    ELSE GatewayResult(200, TRUE)

(* The part of a create-order handler that runs before the INSERT. *)
before_persist(h, a, req, gw) ==
    IF validate_request(req) # 200 THEN GatewayResult(validate_request(req), FALSE)
    ELSE IF h = "create_order" THEN rzp_order_create(a, gw)
    ELSE httpx_order_create(gw)

RunCreateOrder(h, a, req, gw, rows, now) ==
    LET g == before_persist(h, a, req, gw)
    IN IF g.status # 200 THEN Outcome(g.status, rows, g.gateway_called, NULL)
       ELSE persist_order(rows, gw.id, req, now)

CreateOrder ==
    /\ Len(orders) < MaxOrders
    /\ \E req \in CreateOrderRequest, gw \in GatewayOutcomes :
         LET h == Dispatch(app, "POST /api/create-order")
             r == RunCreateOrder(h, app, req, gw, orders, clock)
         IN /\ orders' = r.rows
            /\ before' = orders
            /\ resp' = [op |-> "create_order", handler |-> h, req |-> req, gw |-> gw,
                        status |-> r.status, order_id |-> r.order_id,
                        gateway_called |-> r.gateway_called]
    /\ UNCHANGED <<app, KEY_ID, KEY_SECRET, clock, threads>>

-----------------------------------------------------------------------------
(* verify-payment *)

verify_payment(req, rows, now) ==
    IF ~compare_digest(expected_sig(req.razorpay_order_id, req.razorpay_payment_id),
                       req.razorpay_signature)
    THEN [status |-> 400, rows |-> rows, body |-> "invalid signature"]
    ELSE [status |-> 200,
          rows |-> UpdatePaid(rows, req.razorpay_order_id, req.razorpay_payment_id,
                              req.razorpay_signature, now),
          body |-> "verified"]

VerifyPayment ==
    /\ Dispatch(app, "POST /api/verify-payment") = "verify_payment"
    /\ \E req \in VerifyPaymentRequest :
         LET r == verify_payment(req, orders, clock)
         IN /\ orders' = r.rows
            /\ before' = orders
            /\ resp' = [op |-> "verify_payment", req |-> req, status |-> r.status,
                        body |-> r.body]
    /\ UNCHANGED <<app, KEY_ID, KEY_SECRET, clock, threads>>

(* A path no route matches is answered 404 by the router. *)
RouteMiss ==
    /\ Dispatch(app, "POST /api/verify-payment") = "no_route"
    /\ resp' = [op |-> "no_route", status |-> 404]
    /\ before' = orders
    /\ UNCHANGED <<app, KEY_ID, KEY_SECRET, orders, clock, threads>>

-----------------------------------------------------------------------------
(* Queries *)

Injective(f) == \A i, j \in DOMAIN f : f[i] = f[j] => i = j

(* ORDER BY created_at DESC: any arrangement of the rows with             *)
(* non-increasing created_at; the order of rows with equal created_at is  *)
(* not determined by the query.                                           *)
OrderByCreatedAtDesc(rows) ==
    { [k \in 1..Len(rows) |-> rows[p[k]]] :
        p \in { q \in [1..Len(rows) -> 1..Len(rows)] :
                  /\ Injective(q)
                  /\ \A k \in 1..(Len(rows) - 1) :
                        rows[q[k]].created_at >= rows[q[k + 1]].created_at } }

(* variant: one row too many *)
SqlLimit_off_by_one(s, n) ==
    IF n < 0 \/ n + 1 >= Len(s) THEN s ELSE SubSeq(s, 1, n + 1)

(* LIMIT n: the first n rows; a negative n means no limit. *)
SqlLimit(s, n) ==
    IF n < 0 \/ n >= Len(s) THEN s ELSE SubSeq(s, 1, n)

list_orders(rows, limit) == { SqlLimit(s, limit) : s \in OrderByCreatedAtDesc(rows) }

ListOrders ==
    /\ \E limit \in Limits : \E result \in list_orders(orders, limit) :
         resp' = [op |-> "list_orders", limit |-> limit, status |-> 200, body |-> result]
    /\ before' = orders
    /\ UNCHANGED <<app, KEY_ID, KEY_SECRET, orders, clock, threads>>

get_order(rows, order_id) ==
    IF RowIdx(rows, order_id) = {}
    THEN [status |-> 404, body |-> <<>>]
    ELSE [status |-> 200, body |-> <<rows[CHOOSE i \in RowIdx(rows, order_id) : TRUE]>>]

GetOrder ==
    /\ \E order_id \in OrderIds :
         LET r == get_order(orders, order_id)
         IN resp' = [op |-> "get_order", order_id |-> order_id, status |-> r.status,
                     body |-> r.body]
    /\ before' = orders
    /\ UNCHANGED <<app, KEY_ID, KEY_SECRET, orders, clock, threads>>

-----------------------------------------------------------------------------
Next ==
    \/ Tick
    \/ CreateOrder
    \/ VerifyPayment
    \/ RouteMiss
    \/ ListOrders
    \/ GetOrder

Spec == Init /\ [][Next]_vars

-----------------------------------------------------------------------------
(* Concurrent requests: sync handlers run on worker threads.  A handler is *)
(* split where it opens its database transaction; the transaction itself  *)
(* (one statement and its commit) is atomic.                               *)

Pending(pc) == { t \in Threads : threads[t].pc = pc }

VerifyBegin(t) ==
    /\ threads[t].pc = "idle"
    /\ Dispatch(app, "POST /api/verify-payment") = "verify_payment"
    /\ \E req \in VerifyPaymentRequest :
         IF verify_payment(req, orders, clock).status # 200
         THEN threads' = threads
         ELSE threads' = [threads EXCEPT ![t] = [pc |-> "verify_update", req |-> req, now |-> clock]]
    /\ UNCHANGED <<app, KEY_ID, KEY_SECRET, orders, clock, resp, before>>

VerifyCommit(t) ==
    /\ threads[t].pc = "verify_update"
    /\ orders' = UpdatePaid(orders, threads[t].req.razorpay_order_id,
                            threads[t].req.razorpay_payment_id,
                            threads[t].req.razorpay_signature, threads[t].now)
    /\ threads' = [threads EXCEPT ![t] = IdleThread]
    /\ UNCHANGED <<app, KEY_ID, KEY_SECRET, clock, resp, before>>

CreateBegin(t) ==
    /\ threads[t].pc = "idle"
    /\ Len(orders) + Cardinality(Pending("create_insert")) < MaxOrders
    /\ \E req \in CreateOrderRequest, gw \in GatewayOutcomes :
         LET h == Dispatch(app, "POST /api/create-order")
         IN IF before_persist(h, app, req, gw).status # 200
            THEN threads' = threads
            ELSE threads' = [threads EXCEPT ![t] =
                               [pc |-> "create_insert", req |-> req, rzp_order_id |-> gw.id]]
    /\ UNCHANGED <<app, KEY_ID, KEY_SECRET, orders, clock, resp, before>>

CreateCommit(t) ==
    /\ threads[t].pc = "create_insert"
    /\ orders' = persist_order(orders, threads[t].rzp_order_id, threads[t].req, clock).rows
    /\ threads' = [threads EXCEPT ![t] = IdleThread]
    /\ UNCHANGED <<app, KEY_ID, KEY_SECRET, clock, resp, before>>

NextConc ==
    \/ Tick
    \/ \E t \in Threads : VerifyBegin(t)
    \/ \E t \in Threads : VerifyCommit(t)
    \/ \E t \in Threads : CreateBegin(t)
    \/ \E t \in Threads : CreateCommit(t)

SpecConc == Init /\ [][NextConc]_vars

-----------------------------------------------------------------------------
(* Properties *)

IsCreate == resp.op = "create_order"
IsVerify == resp.op = "verify_payment"

CorrectlySigned(req) ==
    req.razorpay_signature = expected_sig(req.razorpay_order_id, req.razorpay_payment_id)

Min(a, b) == IF a < b THEN a ELSE b

SameStaticColumns(r1, r2) ==
    /\ r1.id = r2.id
    /\ r1.razorpay_order_id = r2.razorpay_order_id
    /\ r1.product = r2.product
    /\ r1.qty = r2.qty
    /\ r1.amount_paise = r2.amount_paise
    /\ r1.customer_name = r2.customer_name
    /\ r1.customer_email = r2.customer_email
    /\ r1.customer_phone = r2.customer_phone
    /\ r1.delivery_address = r2.delivery_address
    /\ r1.created_at = r2.created_at

(* C1: verify-payment with a correctly signed triple whose order id matches *)
(* no stored row fails with not-found (it does not answer "verified") and   *)
(* leaves the order store unchanged.                                        *)
C1_UnknownOrderNotFound ==
    (IsVerify /\ CorrectlySigned(resp.req) /\ RowIdx(before, resp.req.razorpay_order_id) = {})
        => (resp.status = 404 /\ resp.body # "verified" /\ orders = before)

C3_VerifiedRowUpdated ==
    (IsVerify /\ resp.status = 200 /\ RowIdx(before, resp.req.razorpay_order_id) # {})
        => /\ Len(orders) = Len(before)
           /\ \A i \in 1..Len(before) :
                IF before[i].razorpay_order_id = resp.req.razorpay_order_id
                THEN /\ orders[i].status = "paid"
                     /\ orders[i].verified_at # NULL
                     /\ orders[i].razorpay_payment_id = resp.req.razorpay_payment_id
                     /\ orders[i].razorpay_signature = resp.req.razorpay_signature
                     /\ SameStaticColumns(orders[i], before[i])
                ELSE orders[i] = before[i]

C3_Witness ==
    /\ IsVerify
    /\ resp.status = 200
    /\ Len(before) = 2
    /\ \E i, j \in 1..Len(before) :
         /\ before[i].razorpay_order_id = resp.req.razorpay_order_id
         /\ before[i].status = "created"
         /\ orders[i].status = "paid"
         /\ before[j].razorpay_order_id # resp.req.razorpay_order_id
         /\ orders[j] = before[j]

(* C4: a row's status never goes back to 'created', and once a row is       *)
(* 'paid' no later verify-payment call changes its verified_at,             *)
(* razorpay_payment_id or razorpay_signature.                               *)
C4_PaidRowFrozen ==
    \A i \in 1..Len(before) :
        before[i].status = "paid"
            => /\ orders[i].status = "paid"
               /\ orders[i].verified_at = before[i].verified_at
               /\ orders[i].razorpay_payment_id = before[i].razorpay_payment_id
               /\ orders[i].razorpay_signature = before[i].razorpay_signature

RowsValid(rows) ==
    \A i \in 1..Len(rows) :
        rows[i].qty >= 1 /\ rows[i].qty <= 20 /\ rows[i].amount_paise > 0

QtyAmountKept ==
    /\ Len(orders) >= Len(before)
    /\ \A i \in 1..Len(before) :
         orders[i].qty = before[i].qty /\ orders[i].amount_paise = before[i].amount_paise

InvalidCreate ==
    IsCreate /\ (resp.req.qty < 1 \/ resp.req.qty > 20 \/ resp.req.amount_paise <= 0)

(* C5 as stated: create-order with qty < 1, qty > 20 or amount_paise <= 0   *)
(* fails with a validation error (400) without calling the gateway and      *)
(* without inserting a row; every stored row has 1 <= qty <= 20 and         *)
(* amount_paise > 0; no operation changes qty or amount_paise of a row.     *)
C5_InvalidCreateIsValidationError ==
    /\ InvalidCreate => (resp.status = 400 /\ ~resp.gateway_called /\ orders = before)
    /\ RowsValid(orders)
    /\ QtyAmountKept

(* C5 amended: such a request fails without calling the gateway and without *)
(* inserting a row, with the validation error (400) when the credentials    *)
(* are configured and with the credentials error (500) when they are not;   *)
(* every stored row has 1 <= qty <= 20 and amount_paise > 0; no operation   *)
(* changes qty or amount_paise of a row.                                    *)
C5_InvalidCreateRejected ==
    /\ InvalidCreate =>
         /\ resp.status = (IF CredentialsMissing THEN 500 ELSE 400)
         /\ ~resp.gateway_called
         /\ orders = before
    /\ RowsValid(orders)
    /\ QtyAmountKept

C5_Witness ==
    /\ InvalidCreate
    /\ resp.status = 400
    /\ resp.req.qty = 21
    /\ Len(orders) > 0

(* C6: when the gateway call made by create-order raises or returns a       *)
(* non-success status, create-order fails with 502 and no row is inserted.  *)
C6_GatewayFailureLeavesStore ==
    (IsCreate /\ validate_request(resp.req) = 200 /\ resp.gw.kind # "ok")
        => (resp.status = 502 /\ orders = before)

C6_Witness ==
    /\ IsCreate
    /\ resp.gateway_called
    /\ resp.gw.kind = "error"
    /\ resp.status = 502
    /\ Len(orders) > 0

(* C7: a create-order request with qty in 1..20, amount_paise > 0,          *)
(* credentials configured and a gateway answering success with a fresh      *)
(* order id succeeds at POST /api/create-order, returns that order id, and  *)
(* leaves exactly one row with that id, status 'created', null payment      *)
(* fields and the submitted product, qty, amount and customer fields, in    *)
(* both applications.                                                       *)
C7_ValidCreateSucceeds ==
    (IsCreate /\ validate_request(resp.req) = 200 /\ resp.gw.kind = "ok"
             /\ RowIdx(before, resp.gw.id) = {})
        => /\ resp.status = 200
           /\ resp.order_id = resp.gw.id
           /\ Cardinality(RowIdx(orders, resp.gw.id)) = 1
           /\ \A i \in RowIdx(orders, resp.gw.id) :
                /\ orders[i].status = "created"
                /\ orders[i].razorpay_payment_id = NULL
                /\ orders[i].razorpay_signature = NULL
                /\ orders[i].verified_at = NULL
                /\ orders[i].product = resp.req.product
                /\ orders[i].qty = resp.req.qty
                /\ orders[i].amount_paise = resp.req.amount_paise
                /\ orders[i].customer_name = resp.req.customer_name
                /\ orders[i].customer_email = resp.req.customer_email
                /\ orders[i].customer_phone = resp.req.customer_phone
                /\ orders[i].delivery_address = resp.req.delivery_address

(* C8: at most one row exists per razorpay_order_id; when the gateway       *)
(* returns an order id that is already stored, the insert fails, no row is  *)
(* added and the stored row keeps all of its column values.                 *)
C8_OrderIdUnique ==
    /\ \A o \in OrderIds : Cardinality(RowIdx(orders, o)) <= 1
    /\ (IsCreate /\ resp.gateway_called /\ resp.gw.kind = "ok"
                /\ RowIdx(before, resp.gw.id) # {})
         => (resp.status # 200 /\ orders = before)

C8_Witness ==
    /\ IsCreate
    /\ resp.gateway_called
    /\ resp.gw.kind = "ok"
    /\ resp.status = 500
    /\ \E i \in RowIdx(orders, resp.gw.id) : orders[i].status = "paid"

IsList == resp.op = "list_orders"

Omitted(rows, body) == { i \in 1..Len(rows) : \A k \in 1..Len(body) : body[k] # rows[i] }

QueriesReadOnly == (IsList \/ resp.op = "get_order") => orders = before

(* C9 as stated: for every integer limit, list_orders(limit) returns at     *)
(* most `limit` rows, and they are the most recently created ones in        *)
(* descending creation order, also among rows with equal created_at;        *)
(* list_orders and get_order never modify the store.                        *)
C9_ListMostRecentFirst ==
    /\ IsList =>
         /\ Len(resp.body) <= resp.limit
         /\ \A k \in 1..(Len(resp.body) - 1) : resp.body[k].id > resp.body[k + 1].id
         /\ \A i \in Omitted(orders, resp.body) : \A k \in 1..Len(resp.body) :
              orders[i].id < resp.body[k].id
    /\ QueriesReadOnly

(* C9 amended: for a limit >= 0 list_orders returns min(limit, N) of the N  *)
(* stored rows and for a negative limit all N; the returned rows are        *)
(* distinct stored rows in non-increasing created_at order and no omitted   *)
(* row has a created_at greater than that of a returned row (which of the   *)
(* rows with equal created_at come first or are omitted is not determined); *)
(* list_orders and get_order never modify the store.                        *)
C9_ListByCreatedAt ==
    /\ IsList =>
         /\ Len(resp.body) = (IF resp.limit < 0 THEN Len(orders)
                              ELSE Min(resp.limit, Len(orders)))
         /\ \A k \in 1..Len(resp.body) : \E i \in 1..Len(orders) : resp.body[k] = orders[i]
         /\ \A k, l \in 1..Len(resp.body) : k # l => resp.body[k] # resp.body[l]
         /\ \A k \in 1..(Len(resp.body) - 1) :
              resp.body[k].created_at >= resp.body[k + 1].created_at
         /\ \A i \in Omitted(orders, resp.body) : \A k \in 1..Len(resp.body) :
              orders[i].created_at <= resp.body[k].created_at
    /\ QueriesReadOnly

C9_Witness ==
    /\ IsList
    /\ resp.limit = 1
    /\ Len(orders) = 2
    /\ orders[1].created_at = orders[2].created_at
    /\ Len(resp.body) = 1
    /\ resp.body[1].id = 1

(* C10: under any interleaving of concurrent verify-payment and             *)
(* create-order calls every row is either 'created' with null payment id,   *)
(* signature and verified_at, or 'paid' with all three non-null and with a  *)
(* signature that is the HMAC of (order id | payment id) of that same row.  *)
C10_PaymentFieldsConsistent ==
    \A i \in 1..Len(orders) :
        \/ /\ orders[i].status = "created"
           /\ orders[i].razorpay_payment_id = NULL
           /\ orders[i].razorpay_signature = NULL
           /\ orders[i].verified_at = NULL
        \/ /\ orders[i].status = "paid"
           /\ orders[i].razorpay_payment_id # NULL
           /\ orders[i].razorpay_signature # NULL
           /\ orders[i].verified_at # NULL
           /\ orders[i].razorpay_signature =
                expected_sig(orders[i].razorpay_order_id, orders[i].razorpay_payment_id)

C10_Witness ==
    \E i \in 1..Len(orders) : \E t \in Threads :
        /\ orders[i].status = "paid"
        /\ threads[t].pc = "verify_update"
        /\ threads[t].req.razorpay_order_id = orders[i].razorpay_order_id
        /\ threads[t].req.razorpay_payment_id # orders[i].razorpay_payment_id
====
